---- MODULE Spec2Model ----
(***************************************************************************)
(* A state-machine model of the GNN trainer of USTGCN                      *)
(* (src/models/trainer.py) and of the per-entity error function of         *)
(* src/utils/tools.py.                                                     *)
(*                                                                         *)
(* The two neural networks are opaque: a forward pass either raises or     *)
(* yields a loss drawn from a bounded range.  Real numbers are modelled    *)
(* exactly as fractions <<n, d>>; float("Inf") is the fraction <<1, 0>>.   *)
(* A run directory <work_dir>/logs/run_<v> is modelled as RunDir(v).        *)
(* A prediction row holds one value (pred_len = 1).                        *)
(***************************************************************************)
EXTENDS Integers, Sequences, FiniteSets, TLC

VARIABLES
    \* constructor inputs and the ranges the opaque networks produce
    epochs, num_train, num_test, num_nodes, node_batch_size,
    max_train_loss, max_eval_loss, max_metric,
    \* the working directory
    logs_exists, run_dirs, checkpoints, csv_dirs,
    \* fields of the trainer
    learning_rate, requires_grad, writer, log_dir, run_version,
    \* control: the call in progress and its position
    pc, caller, calls_left, last_call, last_error,
    \* locals of train()
    epoch, indices, train_loss, best_test, min_rmse, min_mae, min_mape,
    \* locals of evaluate() and its returned loss
    eval_indices, pred, labels, total_loss, eval_result,
    \* results of test() and of calculate_foodwise_errors
    df_pred, y_true, y_pred, num_foods, rmse_list, mse_list,
    \* history of the current call, kept for the properties
    lr_at_start, epoch_log, visits, evals_in_epoch, eval_log, save_log,
    prev_reported, epoch_sum, reported, node_batches,
    grad_at_entry, raised_in, writer_at_call, path_arg, true_slices,
    versions_log, listed_at_init

config == <<epochs, num_train, num_test, num_nodes, node_batch_size,
            max_train_loss, max_eval_loss, max_metric>>
fs == <<logs_exists, run_dirs, checkpoints, csv_dirs>>
writer_fields == <<writer, log_dir, run_version>>
train_locals == <<epoch, indices, train_loss, best_test, min_rmse, min_mae, min_mape>>
eval_locals == <<eval_indices, pred, labels, total_loss>>
report == <<df_pred, rmse_list, mse_list, true_slices>>
foodwise_inputs == <<y_true, y_pred, num_foods>>
train_history == <<lr_at_start, epoch_log, visits, evals_in_epoch, eval_log, save_log,
                   prev_reported, epoch_sum, reported, node_batches>>
init_history == <<versions_log, listed_at_init>>

vars == <<config, fs, learning_rate, requires_grad, writer_fields,
          pc, caller, calls_left, last_call, last_error,
          train_locals, eval_locals, eval_result, report, foodwise_inputs,
          train_history, grad_at_entry, raised_in, writer_at_call, path_arg,
          init_history>>

----------------------------------------------------------------------------
(* Bounds of the model. *)

MaxCalls == 4
MaxEpochs == 4
MaxTrain == 2
MaxEvalLoss == 2
MaxMetric == 1
MaxTrainLoss == 2
MaxEpochsLR == 27
MaxTest == 3
MaxEntities == 2
MaxCallsEval == 2
MaxNodes == 10
MaxBatch == 5
MaxLen == 7
MaxFoods == 4

(* The parameters of the two networks: parameter 1 of the time-stamp model, *)
(* parameter 2 of the regression model.                                     *)
Params == {1, 2}

(* Python's None where a path or a number is expected, a number v there,   *)
(* and the path of run directory v.                                         *)
None == <<>>
Some(v) == <<v>>
RunDir(v) == <<v>>

(* self.writer before any SummaryWriter was made. *)
NoWriter == "None"

----------------------------------------------------------------------------
(* Exact arithmetic on fractions <<n, d>>. *)

Inf == <<1, 0>>
Frac(n, d) == <<n, d>>
Less(a, b) == a[1] * b[2] < b[1] * a[2]
Same(a, b) == a[1] * b[2] = b[1] * a[2]
Plus(a, k) == <<a[1] + k * a[2], a[2]>>
Over(a, k) == <<a[1], a[2] * k>>

(* Python: min(a, b) returns b only when b < a. *)
PyMin(a, b) == IF Less(b, a) THEN b ELSE a

(* Python: math.ceil(a / b) for positive b. *)
Ceil(a, b) == IF a % b = 0 THEN a \div b ELSE (a \div b) + 1

(* Python slicing of a list, indices from 0: s[a:b] and s[i::n]. *)
PySlice(s, a, b) ==
    LET hi == IF b < Len(s) THEN b ELSE Len(s)
    IN  IF a >= hi THEN <<>> ELSE SubSeq(s, a + 1, hi)

RECURSIVE PyStride(_, _, _)
PyStride(s, i, n) ==
    IF i >= Len(s) THEN <<>> ELSE <<s[i + 1]>> \o PyStride(s, i + n, n)

RECURSIVE SumSeq(_)
SumSeq(s) == IF s = <<>> THEN 0 ELSE s[1] + SumSeq(Tail(s))

Abs(x) == IF x < 0 THEN -x ELSE x
Max0(x) == IF x < 0 THEN 0 ELSE x

----------------------------------------------------------------------------
(* Metric functions (src/utils/tools.py). *)

(* rmse: sqrt(mean(square(y_true - y_pred))).  The model keeps the mean     *)
(* under the root as the fraction <<sum of squares, number of elements>>;   *)
(* the root of an empty mean (0/0) is numpy's nan.                          *)
rmse(yt, yp) ==
    Frac(SumSeq([k \in 1..Len(yt) |-> (yt[k] - yp[k]) * (yt[k] - yp[k])]), Len(yt))

(* mae: mean(abs(y_true - y_pred)), as <<sum, number of elements>>. *)
mae(yt, yp) ==
    Frac(SumSeq([k \in 1..Len(yt) |-> Abs(yt[k] - yp[k])]), Len(yt))

(* A variant that takes food i's values as one contiguous block. *)
FoodSliceChunk(y, i, n) == PySlice(y, i * (Len(y) \div n), (i + 1) * (Len(y) \div n))

(* y[i::num_foods], the slice taken for food i. *)
FoodSlice(y, i, n) == PyStride(y, i, n)

(* calculate_foodwise_errors: one rmse and one mae per i in range(num_foods). *)
calculate_foodwise_errors(yt, yp, n) ==
    [rmse_list |-> [i \in 1..n |-> rmse(FoodSlice(yt, i - 1, n), FoodSlice(yp, i - 1, n))],
     mse_list  |-> [i \in 1..n |-> mae(FoodSlice(yt, i - 1, n), FoodSlice(yp, i - 1, n))]]

----------------------------------------------------------------------------
(* Helpers of the trainer (src/models/trainer.py). *)

(* self.all_nodes = [i for i in range(N)] *)
all_nodes == [i \in 1..num_nodes |-> i - 1]

(* A variant that rounds the number of batches down. *)
num_node_batches_floor == Len(all_nodes) \div node_batch_size

(* math.ceil(len(self.all_nodes) / self.node_batch_size) *)
num_node_batches == Ceil(Len(all_nodes), node_batch_size)

(* self.all_nodes[batch * B : (batch + 1) * B] *)
nodes_in_batch(batch) ==
    PySlice(all_nodes, batch * node_batch_size, (batch + 1) * node_batch_size)

(* A variant that runs one epoch more: range(1, self.epochs + 1). *)
EpochRangeInclusive(E) == 1..E

(* range(1, self.epochs) *)
EpochRange(E) == 1..(E - 1)

(* A variant that assigns the timestamp's loss instead of adding it. *)
AccumulateOverwrite(acc, item) == Frac(item, 1)

(* train_loss += node_batch_loss.item() *)
Accumulate(acc, item) == Plus(acc, item)

(* if epoch <= 24 and epoch % 8 == 0: lr / 2  else: 0.0001 *)
NextLearningRate(lr, e) ==
    IF e <= 24 /\ e % 8 = 0 THEN Over(lr, 2) ELSE Frac(1, 10000)

(* A variant that also saves on a tie: _eval_loss <= best_test. *)
SaveDecisionOnTie(loss, best) == ~Less(best, loss)

(* if _eval_loss < best_test *)
SaveDecision(loss, best) == Less(loss, best)

(* A variant that numbers the run by the last existing index. *)
ListedVersionStale(entries) == Max0(Cardinality(entries) - 1)

(* len(os.listdir(self.log_dir)) *)
ListedVersion(entries) == Cardinality(entries)

(* The synthetic network: its prediction for entity e at test timestamp t. *)
Tag(e, t) == e * 1000 + t

(* pred[i::len(dish_name)], flattened: the column of entity i. *)
Column(p, i, n) == PyStride(p, i, n)

NoModelPath == "ValueError: No model path provided"
EmptyParameters == "ValueError: optimizer got an empty parameter list"
ForwardError == "RuntimeError: forward pass"
NoCheckpoint == "FileNotFoundError: time_stamp_model.pth"

(* initiate_writer: the run directory is numbered by the count of entries   *)
(* of <work_dir>/logs; SummaryWriter(log_dir) creates the directory.        *)
initiate_writer ==
    LET listed == IF logs_exists THEN run_dirs ELSE {}
        version == IF ~logs_exists THEN 0 ELSE ListedVersion(run_dirs)
    IN  /\ logs_exists' = TRUE
        /\ run_version' = Some(version)
        /\ log_dir' = RunDir(version)
        /\ run_dirs' = run_dirs \cup {version}
        /\ writer' = "open"
        /\ versions_log' = Append(versions_log, version)
        /\ listed_at_init' = Append(listed_at_init, Cardinality(listed))

(* The locals of evaluate() before its loop. *)
enter_evaluate(from, flags) ==
    /\ eval_indices' = 0..(num_test - 1)
    /\ pred' = <<>>
    /\ labels' = <<>>
    /\ total_loss' = 0
    /\ grad_at_entry' = flags
    /\ caller' = from
    /\ pc' = "evaluate"

(* The locals of train(), evaluate() and test() outside a call, and the     *)
(* history of a call: a call that begins starts from these.                 *)
fresh_train_locals ==
    /\ epoch' = 0
    /\ indices' = {}
    /\ train_loss' = Frac(0, 1)
    /\ best_test' = Inf
    /\ min_rmse' = Inf
    /\ min_mae' = Inf
    /\ min_mape' = Inf
    /\ lr_at_start' = learning_rate
    /\ epoch_log' = <<>>
    /\ visits' = <<>>
    /\ evals_in_epoch' = 0
    /\ eval_log' = <<>>
    /\ save_log' = <<>>
    /\ prev_reported' = Frac(0, 1)
    /\ epoch_sum' = 0
    /\ reported' = Frac(0, 1)
    /\ node_batches' = <<>>

fresh_eval_locals ==
    /\ eval_indices' = {}
    /\ pred' = <<>>
    /\ labels' = <<>>
    /\ total_loss' = 0
    /\ grad_at_entry' = requires_grad
    /\ caller' = "none"

fresh_report ==
    /\ df_pred' = <<>>
    /\ rmse_list' = <<>>
    /\ mse_list' = <<>>
    /\ true_slices' = <<>>

----------------------------------------------------------------------------
(* train() *)

(* Lines 142-152: initiate_writer(), the minima, the loss accumulator. *)
TrainBegin ==
    /\ pc = "idle"
    /\ calls_left > 0
    /\ calls_left' = calls_left - 1
    /\ last_call' = "train"
    /\ last_error' = "none"
    /\ raised_in' = "none"
    /\ writer_at_call' = writer
    /\ path_arg' = None
    /\ initiate_writer
    /\ fresh_train_locals
    /\ fresh_eval_locals
    /\ fresh_report
    /\ eval_result' = Frac(0, 1)
    /\ pc' = "epoch_loop"
    /\ UNCHANGED <<config, checkpoints, csv_dirs, learning_rate, requires_grad,
                   foodwise_inputs>>

(* Line 153, the head of "for epoch in range(1, self.epochs)": the next     *)
(* epoch with its permutation of the timestamps (lines 154-155), or, the    *)
(* range exhausted, writer.close() (line 239) and the return.               *)
LoopNext ==
    /\ pc = "epoch_loop"
    /\ LET rest == {e \in EpochRange(epochs) : e > epoch}
       IN  IF rest # {}
           THEN /\ epoch' = CHOOSE e \in rest : \A f \in rest : e <= f
                /\ indices' = 0..(num_train - 1)
                /\ visits' = [t \in 0..(num_train - 1) |-> 0]
                /\ epoch_sum' = 0
                /\ evals_in_epoch' = 0
                /\ pc' = "timestamps"
                /\ UNCHANGED writer
           ELSE /\ writer' = "closed"
                /\ pc' = "idle"
                /\ UNCHANGED <<epoch, indices, visits, epoch_sum, evals_in_epoch>>
    /\ UNCHANGED <<config, fs, learning_rate, requires_grad, log_dir, run_version,
                   caller, calls_left, last_call, last_error,
                   train_loss, best_test, min_rmse, min_mae, min_mape,
                   eval_locals, eval_result, report, foodwise_inputs,
                   lr_at_start, epoch_log, eval_log, save_log, prev_reported, reported,
                   node_batches, grad_at_entry, raised_in, writer_at_call, path_arg,
                   init_history>>

(* Lines 157-204: one timestamp of the epoch.  The optimizer is built from  *)
(* the parameters that require gradients (Adam rejects an empty list); the  *)
(* node batches are taken; the forward pass, the loss or the backward pass  *)
(* may raise, which ends train() with the writer left open.                 *)
TrainStep ==
    /\ pc = "timestamps"
    /\ \E index \in indices :
         LET parameters == {p \in Params : requires_grad[p]}
         IN  \/ /\ parameters # {}
                /\ \E item \in 0..max_train_loss :
                     /\ train_loss' = Accumulate(train_loss, item)
                     /\ epoch_sum' = epoch_sum + item
                /\ node_batches' =
                     [b \in 1..num_node_batches |-> nodes_in_batch(b - 1)]
                /\ indices' = indices \ {index}
                /\ visits' = [visits EXCEPT ![index] = @ + 1]
                /\ UNCHANGED <<pc, last_error, raised_in>>
             \/ /\ last_error' = IF parameters = {} THEN EmptyParameters ELSE ForwardError
                /\ raised_in' = "train"
                /\ pc' = "idle"
                /\ UNCHANGED <<train_loss, epoch_sum, node_batches, indices, visits>>
    /\ UNCHANGED <<config, fs, learning_rate, requires_grad, writer_fields,
                   caller, calls_left, last_call,
                   epoch, best_test, min_rmse, min_mae, min_mape,
                   eval_locals, eval_result, report, foodwise_inputs,
                   lr_at_start, epoch_log, evals_in_epoch, eval_log, save_log,
                   prev_reported, reported,
                   grad_at_entry, writer_at_call, path_arg, init_history>>

(* Lines 206-217: the epoch's training loss, the learning-rate update, the  *)
(* scalar written, and the call of evaluate() (lines 248-253).              *)
EpochEnd ==
    /\ pc = "timestamps"
    /\ indices = {}
    /\ train_loss' = Over(train_loss, num_train)
    /\ learning_rate' = NextLearningRate(learning_rate, epoch)
    /\ prev_reported' = reported
    /\ reported' = Over(train_loss, num_train)
    /\ enter_evaluate("train", requires_grad)
    /\ UNCHANGED <<config, fs, requires_grad, writer_fields,
                   calls_left, last_call, last_error,
                   epoch, indices, best_test, min_rmse, min_mae, min_mape,
                   eval_result, report, foodwise_inputs,
                   lr_at_start, epoch_log, visits, evals_in_epoch, eval_log, save_log,
                   epoch_sum, node_batches,
                   raised_in, writer_at_call, path_arg, init_history>>

(* Lines 218-237: the metrics, the checkpoint decision (save_model writes   *)
(* both networks into the run directory), the running minima.               *)
Checkpoint ==
    /\ pc = "validated"
    /\ \E _rmse \in 0..max_metric, _mae \in 0..max_metric, _mape \in 0..max_metric :
         /\ min_rmse' = PyMin(min_rmse, Frac(_rmse, 1))
         /\ min_mae' = PyMin(min_mae, Frac(_mae, 1))
         /\ min_mape' = PyMin(min_mape, Frac(_mape, 1))
    /\ IF SaveDecision(eval_result, best_test)
       THEN /\ best_test' = eval_result
            /\ checkpoints' = (log_dir[1] :> requires_grad) @@ checkpoints
            /\ save_log' = Append(save_log, TRUE)
       ELSE /\ UNCHANGED <<best_test, checkpoints>>
            /\ save_log' = Append(save_log, FALSE)
    /\ eval_log' = Append(eval_log, eval_result)
    /\ epoch_log' = Append(epoch_log, epoch)
    /\ pc' = "epoch_loop"
    /\ UNCHANGED <<config, logs_exists, run_dirs, csv_dirs, learning_rate,
                   requires_grad, writer_fields,
                   caller, calls_left, last_call, last_error,
                   epoch, indices, train_loss,
                   eval_locals, eval_result, report, foodwise_inputs,
                   lr_at_start, visits, evals_in_epoch,
                   prev_reported, epoch_sum, reported, node_batches,
                   grad_at_entry, raised_in, writer_at_call, path_arg, init_history>>

----------------------------------------------------------------------------
(* evaluate() *)

(* Lines 254-277: one test timestamp, visited in the order of a random      *)
(* permutation.  Every parameter that requires gradients is switched off    *)
(* and remembered; the forward pass or the loss may raise, which leaves     *)
(* evaluate() and its caller at once; otherwise the loss and the rows of    *)
(* labels and predictions are added and the remembered parameters are       *)
(* switched on again.                                                       *)
EvalStep ==
    /\ pc = "evaluate"
    /\ \E index \in eval_indices :
         LET parameters == {p \in Params : requires_grad[p]}
             disabled == [p \in Params |-> IF p \in parameters THEN FALSE
                                                                ELSE requires_grad[p]]
             rows == [e \in 1..num_nodes |-> Tag(all_nodes[e], index)]
         IN  \/ /\ \E item \in 0..max_eval_loss : total_loss' = total_loss + item
                /\ labels' = labels \o rows
                /\ pred' = pred \o rows
                /\ requires_grad' = [p \in Params |-> IF p \in parameters THEN TRUE
                                                                         ELSE disabled[p]]
                /\ eval_indices' = eval_indices \ {index}
                /\ UNCHANGED <<pc, last_error, raised_in>>
             \/ /\ requires_grad' = disabled
                /\ last_error' = ForwardError
                /\ raised_in' = "evaluate"
                /\ pc' = "idle"
                /\ UNCHANGED <<total_loss, labels, pred, eval_indices>>
    /\ UNCHANGED <<config, fs, learning_rate, writer_fields,
                   caller, calls_left, last_call,
                   train_locals, eval_result, report, foodwise_inputs,
                   train_history, grad_at_entry, writer_at_call, path_arg, init_history>>

(* Lines 279-281: the mean loss; the return to train() or to test(). *)
EvalReturn ==
    /\ pc = "evaluate"
    /\ eval_indices = {}
    /\ eval_result' = Frac(total_loss, num_test)
    /\ evals_in_epoch' = evals_in_epoch + 1
    /\ pc' = IF caller = "train" THEN "validated" ELSE "report"
    /\ UNCHANGED <<config, fs, learning_rate, requires_grad, writer_fields,
                   caller, calls_left, last_call, last_error,
                   train_locals, eval_locals, report, foodwise_inputs,
                   lr_at_start, epoch_log, visits, eval_log, save_log,
                   prev_reported, epoch_sum, reported, node_batches,
                   grad_at_entry, raised_in, writer_at_call, path_arg, init_history>>

----------------------------------------------------------------------------
(* test() and load_model() *)

(* Lines 353-377.  A path names a run directory; torch.load fails when the  *)
(* directory holds no checkpoint.  A loaded network comes back with the     *)
(* gradient flags it was saved with.                                        *)
load_model(model_path) ==
    IF model_path # None
    THEN IF model_path[1] \in DOMAIN checkpoints
         THEN /\ requires_grad' = checkpoints[model_path[1]]
              /\ log_dir' = model_path
              /\ writer' = "open"
              /\ run_version' = Some(model_path[1])
              /\ last_error' = "none"
              /\ UNCHANGED <<logs_exists, run_dirs, init_history>>
         ELSE /\ last_error' = NoCheckpoint
              /\ UNCHANGED <<requires_grad, writer_fields, logs_exists, run_dirs,
                             init_history>>
    ELSE IF writer = NoWriter
         THEN /\ initiate_writer
              /\ last_error' = "none"
              /\ UNCHANGED requires_grad
         ELSE /\ last_error' = NoModelPath
              /\ UNCHANGED <<requires_grad, writer_fields, logs_exists, run_dirs,
                             init_history>>

(* Lines 283-301: test(test_start, model_path, num_days) up to the call of  *)
(* evaluate(); an error of load_model ends the call.                        *)
TestBegin ==
    /\ pc = "idle"
    /\ calls_left > 0
    /\ calls_left' = calls_left - 1
    /\ last_call' = "test"
    /\ raised_in' = "none"
    /\ writer_at_call' = writer
    /\ \E model_path \in {None} \cup {RunDir(v) : v \in 0..Cardinality(run_dirs)} :
         /\ path_arg' = model_path
         /\ load_model(model_path)
    /\ fresh_train_locals
    /\ fresh_report
    /\ eval_result' = Frac(0, 1)
    /\ IF last_error' = "none"
       THEN enter_evaluate("test", requires_grad')
       ELSE /\ eval_indices' = {}
            /\ pred' = <<>>
            /\ labels' = <<>>
            /\ total_loss' = 0
            /\ grad_at_entry' = requires_grad
            /\ caller' = "none"
            /\ pc' = "idle"
    /\ UNCHANGED <<config, checkpoints, csv_dirs, learning_rate, foodwise_inputs>>

(* Lines 303-351: the per-entity errors, the prediction table with one      *)
(* column per entity (rows follow the dates in calendar order), the files.  *)
TestReport ==
    /\ pc = "report"
    /\ LET n == Len(all_nodes)
           errors == calculate_foodwise_errors(labels, pred, n)
       IN  /\ rmse_list' = errors.rmse_list
           /\ mse_list' = errors.mse_list
           /\ true_slices' = [i \in 1..n |-> FoodSlice(labels, i - 1, n)]
           /\ df_pred' = [i \in 1..n |-> Column(pred, i - 1, n)]
    /\ csv_dirs' = csv_dirs \cup {log_dir}
    /\ pc' = "idle"
    /\ UNCHANGED <<config, logs_exists, run_dirs, checkpoints, learning_rate,
                   requires_grad, writer_fields,
                   caller, calls_left, last_call, last_error,
                   train_locals, eval_locals, eval_result, foodwise_inputs,
                   train_history, grad_at_entry, raised_in, writer_at_call, path_arg,
                   init_history>>

(* Lines 31-127: a trainer constructed anew in the same working directory   *)
(* (a new process): fresh networks, no writer.                              *)
NewTrainer ==
    /\ pc = "idle"
    /\ calls_left > 0
    /\ calls_left' = calls_left - 1
    /\ last_call' = "init"
    /\ last_error' = "none"
    /\ raised_in' = "none"
    /\ writer_at_call' = NoWriter
    /\ path_arg' = None
    /\ learning_rate' = Frac(1, 100)
    /\ requires_grad' = [p \in Params |-> TRUE]
    /\ writer' = NoWriter
    /\ log_dir' = None
    /\ run_version' = None
    /\ fresh_train_locals
    /\ eval_indices' = {}
    /\ pred' = <<>>
    /\ labels' = <<>>
    /\ total_loss' = 0
    /\ grad_at_entry' = [p \in Params |-> TRUE]
    /\ caller' = "none"
    /\ fresh_report
    /\ eval_result' = Frac(0, 1)
    /\ UNCHANGED <<config, fs, pc, foodwise_inputs, init_history>>

----------------------------------------------------------------------------
(* calculate_foodwise_errors called on its own (src/utils/tools.py 72-91). *)
CallFoodwise ==
    /\ pc = "idle"
    /\ calls_left > 0
    /\ calls_left' = calls_left - 1
    /\ last_call' = "calculate_foodwise_errors"
    /\ LET errors == calculate_foodwise_errors(y_true, y_pred, num_foods)
       IN  /\ rmse_list' = errors.rmse_list
           /\ mse_list' = errors.mse_list
           /\ true_slices' = [i \in 1..num_foods |-> FoodSlice(y_true, i - 1, num_foods)]
    /\ UNCHANGED <<config, fs, learning_rate, requires_grad, writer_fields,
                   pc, caller, last_error,
                   train_locals, eval_locals, eval_result, df_pred, foodwise_inputs,
                   train_history, grad_at_entry, raised_in, writer_at_call, path_arg,
                   init_history>>

----------------------------------------------------------------------------
(* The state after construction (lines 78-127): the configured sizes, the   *)
(* learning rate 0.01, no writer, and an empty working directory.           *)
Constructed(E, T, Tt, N, B, mtl, mel, mm, calls, flags) ==
    /\ epochs = E
    /\ num_train = T
    /\ num_test = Tt
    /\ num_nodes = N
    /\ node_batch_size = B
    /\ max_train_loss = mtl
    /\ max_eval_loss = mel
    /\ max_metric = mm
    /\ logs_exists = FALSE
    /\ run_dirs = {}
    /\ checkpoints = <<>>
    /\ csv_dirs = {}
    /\ learning_rate = Frac(1, 100)
    /\ requires_grad = flags
    /\ writer = NoWriter
    /\ log_dir = None
    /\ run_version = None
    /\ pc = "idle"
    /\ caller = "none"
    /\ calls_left = calls
    /\ last_call = "init"
    /\ last_error = "none"
    /\ epoch = 0
    /\ indices = {}
    /\ train_loss = Frac(0, 1)
    /\ best_test = Inf
    /\ min_rmse = Inf
    /\ min_mae = Inf
    /\ min_mape = Inf
    /\ eval_indices = {}
    /\ pred = <<>>
    /\ labels = <<>>
    /\ total_loss = 0
    /\ eval_result = Frac(0, 1)
    /\ df_pred = <<>>
    /\ rmse_list = <<>>
    /\ mse_list = <<>>
    /\ true_slices = <<>>
    /\ lr_at_start = Frac(1, 100)
    /\ epoch_log = <<>>
    /\ visits = <<>>
    /\ evals_in_epoch = 0
    /\ eval_log = <<>>
    /\ save_log = <<>>
    /\ prev_reported = Frac(0, 1)
    /\ epoch_sum = 0
    /\ reported = Frac(0, 1)
    /\ node_batches = <<>>
    /\ grad_at_entry = flags
    /\ raised_in = "none"
    /\ writer_at_call = NoWriter
    /\ path_arg = None
    /\ versions_log = <<>>
    /\ listed_at_init = <<>>

AllTrainable == [p \in Params |-> TRUE]

NoFoodwiseInputs ==
    /\ y_true = <<>>
    /\ y_pred = <<>>
    /\ num_foods = 0

(* Sequences of train(), test() and new trainers in one working directory;  *)
(* one timestamp, one node, one loss value.                                 *)
Init ==
    /\ \E E \in 1..2 : Constructed(E, 1, 1, 1, 1, 0, 0, 0, MaxCalls, AllTrainable)
    /\ NoFoodwiseInputs

Next ==
    \/ TrainBegin
    \/ LoopNext
    \/ TrainStep
    \/ EpochEnd
    \/ Checkpoint
    \/ EvalStep
    \/ EvalReturn
    \/ TestBegin
    \/ TestReport
    \/ NewTrainer

Spec == Init /\ [][Next]_vars

(* The same operations with several entities and test timestamps and any    *)
(* gradient flags.                                                          *)
InitEval ==
    /\ \E N \in 1..MaxEntities, Tt \in 1..MaxTest, flags \in [Params -> BOOLEAN] :
         Constructed(2, 1, Tt, N, 1, 0, 0, 0, MaxCallsEval, flags)
    /\ NoFoodwiseInputs

SpecEval == InitEval /\ [][Next]_vars

(* One call of train() on a new trainer. *)
NextTrain ==
    \/ TrainBegin
    \/ LoopNext
    \/ TrainStep
    \/ EpochEnd
    \/ Checkpoint
    \/ EvalStep
    \/ EvalReturn

(* Validation losses and metrics vary. *)
InitCheckpoint ==
    /\ \E E \in 0..MaxEpochs :
         Constructed(E, 1, 1, 1, 1, 0, MaxEvalLoss, MaxMetric, 1, AllTrainable)
    /\ NoFoodwiseInputs

SpecCheckpoint == InitCheckpoint /\ [][NextTrain]_vars

(* Validation losses vary; several training timestamps. *)
InitEpochs ==
    /\ \E E \in 0..MaxEpochs, T \in 1..MaxTrain :
         Constructed(E, T, 1, 1, 1, 0, MaxEvalLoss, 0, 1, AllTrainable)
    /\ NoFoodwiseInputs

SpecEpochs == InitEpochs /\ [][NextTrain]_vars

(* Training losses vary. *)
InitLoss ==
    /\ \E E \in 0..MaxEpochs, T \in 1..MaxTrain :
         Constructed(E, T, 1, 1, 1, MaxTrainLoss, 0, 0, 1, AllTrainable)
    /\ NoFoodwiseInputs

SpecLoss == InitLoss /\ [][NextTrain]_vars

(* Enough epochs for the whole learning-rate schedule. *)
InitLR ==
    /\ \E E \in 0..MaxEpochsLR :
         Constructed(E, 1, 1, 1, 1, 0, 0, 0, 1, AllTrainable)
    /\ NoFoodwiseInputs

SpecLR == InitLR /\ [][NextTrain]_vars

(* Node counts and node batch sizes vary. *)
InitBatch ==
    /\ \E N \in 1..MaxNodes, B \in 1..MaxBatch :
         Constructed(2, 1, 1, N, B, 0, 0, 0, 1, AllTrainable)
    /\ NoFoodwiseInputs

SpecBatch == InitBatch /\ [][NextTrain]_vars

(* calculate_foodwise_errors on flat sequences: y_true is 1, 2, ..., L. *)
InitFoodwise ==
    /\ Constructed(0, 1, 1, 1, 1, 0, 0, 0, 1, AllTrainable)
    /\ \E L \in 0..MaxLen, n \in 1..MaxFoods :
         /\ y_true = [k \in 1..L |-> k]
         /\ y_pred \in [1..L -> 0..1]
         /\ num_foods = n

NextFoodwise == CallFoodwise

SpecFoodwise == InitFoodwise /\ [][NextFoodwise]_vars

(* A call of train() in progress keeps running: the program is one thread. *)
TrainRuns == LoopNext \/ TrainStep \/ EpochEnd \/ Checkpoint \/ EvalStep \/ EvalReturn

SpecEpochsFair == SpecEpochs /\ WF_vars(TrainRuns)

----------------------------------------------------------------------------
(* Properties. *)

Zero == Frac(0, 1)
Range(s) == {s[k] : k \in 1..Len(s)}

RECURSIVE Power2(_)
Power2(k) == IF k = 0 THEN 1 ELSE 2 * Power2(k - 1)

RECURSIVE Flatten(_)
Flatten(ss) == IF ss = <<>> THEN <<>> ELSE ss[1] \o Flatten(Tail(ss))

(* The state right after the end-of-epoch update of the current epoch. *)
AfterEpochUpdate == last_call = "train" /\ pc \in {"evaluate", "validated"}

(* The rate the schedule is said to give after epoch e, starting at 0.01. *)
ScheduledRate(e) ==
    IF e >= 25 THEN Frac(1, 10000) ELSE Over(Frac(1, 100), Power2(e \div 8))

(* C1: starting from 0.01, the learning rate after the end-of-epoch update  *)
(* is 0.01 halved once for each of the epochs 8, 16, 24 passed (unchanged   *)
(* at every other epoch <= 24), and 0.0001 at every epoch >= 25.            *)
C1_LearningRateSchedule ==
    (AfterEpochUpdate /\ Same(lr_at_start, Frac(1, 100)))
        => Same(learning_rate, ScheduledRate(epoch))

(* C1, the case the schedule is about: epoch 8 has been updated. *)
C1_Epoch8Updated ==
    AfterEpochUpdate /\ epoch = 8 /\ Same(learning_rate, Frac(1, 20000))

(* C2: load_model(None) raises the "no model path" error exactly when no    *)
(* writer was initiated on the trainer before the call, and a call with a   *)
(* path never raises it.                                                    *)
C2_NonePathRejectedWithoutWriter ==
    (last_call = "test" /\ raised_in = "none")
        => /\ path_arg = None
                => ((last_error = NoModelPath) <=> (writer_at_call = NoWriter))
           /\ path_arg # None => last_error # NoModelPath

(* C2, the case: test() without a path on a trainer whose writer exists. *)
C2_NonePathWithWriter ==
    last_call = "test" /\ path_arg = None /\ writer_at_call # NoWriter

(* C3: on every exit from evaluate(), by return or by an error raised at    *)
(* any test timestamp, every parameter has the requires_grad it had when    *)
(* evaluate() was entered.                                                  *)
C3_NoGradientLeak ==
    (pc \in {"validated", "report"} \/ raised_in = "evaluate")
        => requires_grad = grad_at_entry

(* C3, the case: evaluate() left by an error with a trainable parameter. *)
C3_RaisedWithTrainable ==
    raised_in = "evaluate" /\ \E p \in Params : grad_at_entry[p]

(* C4: the checkpoint is saved at the end of an epoch exactly when the      *)
(* epoch's validation loss is strictly less than that of every earlier      *)
(* epoch of the run (a tie does not save again), whatever the RMSE, MAE and *)
(* MAPE of the epochs; the best loss is the minimum seen so far; the run    *)
(* directory holds a checkpoint exactly when some epoch saved.              *)
C4_SaveOnStrictImprovement ==
    last_call = "train" =>
        /\ Len(save_log) = Len(eval_log)
        /\ \A k \in 1..Len(eval_log) :
             save_log[k] <=> \A j \in 1..(k - 1) : Less(eval_log[k], eval_log[j])
        /\ IF eval_log = <<>>
           THEN best_test = Inf
           ELSE /\ \E j \in 1..Len(eval_log) : best_test = eval_log[j]
                /\ \A j \in 1..Len(eval_log) : ~Less(eval_log[j], best_test)
        /\ (log_dir[1] \in DOMAIN checkpoints) <=> (TRUE \in Range(save_log))

(* C4, the case: the second epoch tied with the first and did not save      *)
(* again, and the third epoch improved and saved.                           *)
C4_TieNotSaved ==
    /\ last_call = "train"
    /\ Len(eval_log) = 3
    /\ Same(eval_log[1], eval_log[2])
    /\ Less(eval_log[3], eval_log[2])
    /\ save_log = <<TRUE, FALSE, TRUE>>

(* C5: after test(), the value in the row of the k-th date and the column   *)
(* of entity e is the tag of entity e at the k-th test timestamp in         *)
(* calendar order, whatever the order evaluate() visited the timestamps in. *)
C5_ReportRoundTrip ==
    (last_call = "test" /\ pc = "idle" /\ df_pred # <<>>)
        => /\ Len(df_pred) = num_nodes
           /\ \A e \in 1..num_nodes :
                /\ Len(df_pred[e]) = num_test
                /\ \A k \in 1..num_test : df_pred[e][k] = Tag(e - 1, k - 1)

(* C5, the case: a report written from a visit of the test timestamps that *)
(* was not in calendar order.                                               *)
C5_ShuffledReport ==
    /\ last_call = "test"
    /\ pc = "idle"
    /\ df_pred # <<>>
    /\ num_test >= 2
    /\ num_nodes >= 2
    /\ pred[1] # Tag(0, 0)

(* C6: the node batches of a timestamp are ceil(N/B) consecutive slices of  *)
(* 0..N-1 which, in order, give every index once in ascending order; every  *)
(* batch but the last has B nodes and the last has N - B*(ceil(N/B)-1) >= 1.*)
C6_NodeBatches ==
    node_batches # <<>> =>
        LET k == Len(node_batches)
        IN  /\ k * node_batch_size >= num_nodes
            /\ (k - 1) * node_batch_size < num_nodes
            /\ Flatten(node_batches) = [i \in 1..num_nodes |-> i - 1]
            /\ \A b \in 1..(k - 1) : Len(node_batches[b]) = node_batch_size
            /\ Len(node_batches[k]) = num_nodes - node_batch_size * (k - 1)
            /\ Len(node_batches[k]) >= 1

(* C6, the case: 10 nodes in batches of 4 give batches of 4, 4 and 2. *)
C6_TenNodesByFour ==
    /\ num_nodes = 10
    /\ node_batch_size = 4
    /\ Len(node_batches) = 3
    /\ Len(node_batches[1]) = 4
    /\ Len(node_batches[2]) = 4
    /\ node_batches[3] = <<8, 9>>

(* C7: every run initiated in the working directory is numbered by the      *)
(* count of run directories existing at that moment (0 without a logs      *)
(* directory), and the numbers strictly increase from one run to the next,  *)
(* so that none is used twice; the run directories are those numbered.      *)
C7_RunVersions ==
    /\ Len(listed_at_init) = Len(versions_log)
    /\ \A i \in 1..Len(versions_log) : versions_log[i] = listed_at_init[i]
    /\ \A i \in 1..Len(versions_log) : \A j \in 1..Len(versions_log) :
         i < j => versions_log[i] < versions_log[j]
    /\ run_dirs = Range(versions_log)
    /\ (~logs_exists) => versions_log = <<>>

(* C7, the case: three runs, the last one initiated by test() without path. *)
C7_ThreeRuns ==
    /\ Len(versions_log) = 3
    /\ last_call = "test"
    /\ path_arg = None
    /\ run_version = Some(2)

(* C8 (state part): the epochs executed are 1, 2, ... in that order and at  *)
(* most E-1 of them; a train() that returned executed exactly E-1 (none     *)
(* when E <= 1); the training part of an epoch visits each of the T         *)
(* timestamps exactly once and the epoch runs exactly one evaluation; the   *)
(* loop is left before epoch E-1 only by an error raised in a step.         *)
C8_EpochsRun ==
    last_call = "train" =>
        /\ \A i \in 1..Len(epoch_log) : epoch_log[i] = i
        /\ Len(epoch_log) <= Max0(epochs - 1)
        /\ (pc = "idle" /\ raised_in = "none") => Len(epoch_log) = Max0(epochs - 1)
        /\ pc \in {"timestamps", "evaluate", "validated"}
             => /\ epoch = Len(epoch_log) + 1
                /\ epoch <= epochs - 1
        /\ pc = "timestamps"
             => /\ \A t \in 0..(num_train - 1) :
                     visits[t] = IF t \in indices THEN 0 ELSE 1
                /\ evals_in_epoch = 0
        /\ pc \in {"evaluate", "validated"}
             => \A t \in 0..(num_train - 1) : visits[t] = 1
        /\ pc = "evaluate" => evals_in_epoch = 0
        /\ pc = "validated" => evals_in_epoch = 1
        /\ (pc = "epoch_loop" /\ epoch_log # <<>>)
             => /\ evals_in_epoch = 1
                /\ epoch = Len(epoch_log)

(* C8: train() configured with E epochs always terminates, and it does so   *)
(* after executing exactly the epochs 1, ..., E-1 in order, each visiting   *)
(* every training timestamp once and running one evaluation, whatever the   *)
(* validation losses (only an error raised by a step ends it earlier).      *)
C8_TrainTerminatesAfterAllEpochs ==
    /\ []C8_EpochsRun
    /\ (pc # "idle") ~> (pc = "idle")

(* C8, the case: a run of three epochs returned although its second epoch   *)
(* improved on the first and its third was worse.                           *)
C8_ThreeEpochsReturned ==
    /\ last_call = "train"
    /\ pc = "idle"
    /\ raised_in = "none"
    /\ epochs = 4
    /\ num_train = 2
    /\ epoch_log = <<1, 2, 3>>
    /\ Less(eval_log[2], eval_log[1])
    /\ Less(eval_log[2], eval_log[3])

(* The elements of s at the positions (from 0) congruent to i modulo n. *)
AtPositions(s, i, n) ==
    LET idx == {q \in 0..(Len(s) - 1) : q % n = i}
    IN  [j \in 1..Cardinality(idx) |-> s[i + (j - 1) * n + 1]]

(* C9: calculate_foodwise_errors returns two lists of length n whose entry  *)
(* i is computed over exactly the elements at positions i, i+n, i+2n, ...   *)
(* of the flat sequences, and these n subsequences partition the flat       *)
(* sequence: every position belongs to exactly one of them.                 *)
C9_FoodwiseSlices ==
    last_call = "calculate_foodwise_errors" =>
        /\ Len(rmse_list) = num_foods
        /\ Len(mse_list) = num_foods
        /\ \A i \in 1..num_foods :
             /\ true_slices[i] = AtPositions(y_true, i - 1, num_foods)
             /\ rmse_list[i] = rmse(AtPositions(y_true, i - 1, num_foods),
                                    AtPositions(y_pred, i - 1, num_foods))
             /\ mse_list[i] = mae(AtPositions(y_true, i - 1, num_foods),
                                  AtPositions(y_pred, i - 1, num_foods))
        /\ \A q \in 1..Len(y_true) :
             Cardinality({i \in 1..num_foods : y_true[q] \in Range(true_slices[i])}) = 1
        /\ Len(Flatten(true_slices)) = Len(y_true)
        /\ num_foods = 1 => true_slices[1] = y_true

(* C9, the case: three entities and the flat sequence 1, ..., 6. *)
C9_ThreeEntitiesOfSix ==
    /\ last_call = "calculate_foodwise_errors"
    /\ num_foods = 3
    /\ y_true = <<1, 2, 3, 4, 5, 6>>
    /\ true_slices = << <<1, 4>>, <<2, 5>>, <<3, 6>> >>

(* The training loss reported for the current epoch follows the cumulative  *)
(* recurrence: (value reported for the previous epoch + sum of the epoch's  *)
(* timestamp losses) / T.                                                   *)
CumulativeRecurrence ==
    /\ Same(reported, Over(Plus(prev_reported, epoch_sum), num_train))
    /\ reported = train_loss
    /\ epoch_log = <<>> => prev_reported = Zero

PlainMean == Frac(epoch_sum, num_train)

(* C10 as stated: the recurrence, and the reported loss equals the plain    *)
(* mean of the epoch's timestamp losses only in the first epoch.            *)
C10_PlainMeanOnlyInFirstEpoch ==
    AfterEpochUpdate =>
        /\ CumulativeRecurrence
        /\ Same(reported, PlainMean) <=> (epoch_log = <<>>)

(* C10 as amended: the recurrence, and the reported loss equals the plain   *)
(* mean of the epoch's timestamp losses exactly when the value reported for *)
(* the previous epoch is 0, which is so in the first epoch and later only   *)
(* if every loss so far was 0.                                              *)
C10_CumulativeTrainingLoss ==
    AfterEpochUpdate =>
        /\ CumulativeRecurrence
        /\ Same(reported, PlainMean) <=> Same(prev_reported, Zero)

(* C10, the case: a second epoch whose reported loss carries the first's. *)
C10_SecondEpochCarries ==
    /\ AfterEpochUpdate
    /\ epoch = 2
    /\ num_train = 2
    /\ Less(Zero, prev_reported)
    /\ Less(PlainMean, reported)

====
